---------------------------- MODULE Spec2Model ----------------------------
(* A state-machine model of lmfit/models.py: the catalog of model shapes,  *)
(* their constructors and guess_starting_values procedures, the shared     *)
(* peak heuristic estimate_peak and the index lookup index_of.             *)
EXTENDS Integers, Sequences, FiniteSets, TLC

VARIABLES model, params, exprs, last, call

vars == <<model, params, exprs, last, call>>

(***************************************************************************)
(* Bounds of the model.                                                    *)
(***************************************************************************)
\* longest array handed to index_of / estimate_peak
MaxLen == 4
\* largest sample value in those arrays
MaxVal == 1

(***************************************************************************)
(* Numbers.  A float is modelled exactly, as n/d + e * 1e-9 with gcd(n,d)=1 *)
(* and d > 0; NaN and None are separate values.                            *)
(***************************************************************************)
Abs(a) == IF a < 0 THEN -a ELSE a

RECURSIVE Gcd(_, _)
Gcd(a, b) == IF b = 0 THEN Abs(a) ELSE Gcd(b, a % b)

NumE(n, d, e) ==
  LET g == Gcd(Abs(n), Abs(d))
      s == IF d < 0 THEN -1 ELSE 1
  IN [k |-> "num", n |-> (s * n) \div g, d |-> (s * d) \div g, e |-> e]

Num(n, d) == NumE(n, d, 0)

None == [k |-> "None"]
\* a numpy array argument (x may be None instead)
Array(s) == [k |-> "array", v |-> s]
NaN == [k |-> "nan"]

RECURSIVE SumSeq(_)
SumSeq(s) == IF s = <<>> THEN 0 ELSE Head(s) + SumSeq(Tail(s))

Range(s) == {s[i] : i \in DOMAIN s}
Max(s) == CHOOSE m \in Range(s) : \A v \in Range(s) : v <= m
Min(s) == CHOOSE m \in Range(s) : \A v \in Range(s) : m <= v

\* all sequences over S of length lo..hi
SeqsOf(S, lo, hi) == UNION {[1..n -> S] : n \in lo..hi}

(***************************************************************************)
(* index_of(arr, val): 0 when val is below min(arr), else the first index  *)
(* (0-based) at which |arr - val| is smallest (numpy argmin).              *)
(***************************************************************************)
AbsDiffBug(a, v) == a - v

AbsDiff(a, v) == Abs(a - v)

ArgMin(d) ==
  CHOOSE i \in DOMAIN d :
    /\ \A j \in DOMAIN d : d[i] <= d[j]
    /\ \A j \in DOMAIN d : j < i => d[j] > d[i]

index_of(arr, val) ==
  IF val < Min(arr) THEN 0
  ELSE ArgMin([i \in DOMAIN arr |-> AbsDiff(arr[i], val)]) - 1

(***************************************************************************)
(* estimate_peak(y, x, negative).  x is None or a sequence; indices are    *)
(* 0-based as in the source, so x[i] of the source is x[i + 1] here.       *)
(* max()/min() of an empty array raise ValueError, an index past the end   *)
(* of x raises IndexError.  cen is read from x at line 29, before the       *)
(* negative branch; that branch reassigns imaxy (line 35) but nothing      *)
(* reads it afterwards, so imaxy below is always index_of(y, maxy).        *)
(***************************************************************************)
Raise(err) == [ok |-> FALSE, err |-> err]

\* np.where(cond)[0]: the 0-based indices, ascending, where y is on the
\* selected side of the midpoint  (y > (maxy+miny)/2.0, or y < ... )
HalfmaxSideBug(negative, v, maxy, miny) ==
  IF negative THEN 2 * v <= maxy + miny ELSE 2 * v >= maxy + miny

HalfmaxSide(negative, v, maxy, miny) ==
  IF negative THEN 2 * v < maxy + miny ELSE 2 * v > maxy + miny

HalfmaxVals(y, negative) ==
  {i - 1 : i \in {j \in DOMAIN y : HalfmaxSide(negative, y[j], Max(y), Min(y))}}

SetMax(S) == CHOOSE m \in S : \A v \in S : v <= m
SetMin(S) == CHOOSE m \in S : \A v \in S : m <= v

estimate_peak(y, xopt, negative) ==
  IF xopt.k = "None"
  THEN [ok |-> TRUE, amp |-> Num(1, 1), cen |-> Num(0, 1), sig |-> Num(1, 1)]
  ELSE
    LET x == xopt.v IN
    IF y = <<>> \/ x = <<>> THEN Raise("ValueError")
    ELSE
      LET maxy == Max(y)
          miny == Min(y)
          maxx == Max(x)
          minx == Min(x)
          imaxy == index_of(y, maxy)
          hm == HalfmaxVals(y, negative)
          amp == IF negative THEN Num(-(3 * (maxy - miny)), 2)
                             ELSE Num(3 * (maxy - miny), 2)
      IN IF imaxy + 1 > Len(x) THEN Raise("IndexError")
         ELSE IF Cardinality(hm) > 2
           THEN IF SetMax(hm) + 1 > Len(x) THEN Raise("IndexError")
                ELSE [ok |-> TRUE, amp |-> amp, cen |-> Num(x[imaxy + 1], 1),
                      sig |-> Num(x[SetMax(hm) + 1] - x[SetMin(hm) + 1], 2)]
           ELSE [ok |-> TRUE, amp |-> amp, cen |-> Num(x[imaxy + 1], 1),
                 sig |-> Num(maxx - minx, 6)]

(***************************************************************************)
(* Parameter names.  A name in the store is prefix + base name.            *)
(***************************************************************************)
Shapes == {"Constant", "Linear", "Quadratic", "Polynomial", "Gaussian",
           "Lorentzian", "Voigt", "PowerLaw", "Exponential"}
PeakShapes == {"Gaussian", "Lorentzian", "Voigt"}

Digit == <<"0", "1", "2", "3", "4", "5", "6", "7", "8", "9">>

\* 'c%i' % i
CName(i) == "c" \o Digit[i + 1]

\* pnames = ['c%i' % (i) for i in range(deg + 1)]
PolyNames(deg) == [i \in 1..(deg + 1) |-> CName(i - 1)]

\* the parameters of the imported lineshape functions (their arguments
\* after x), in the order of the signature
LineshapeNames(shape) ==
  CASE shape = "Linear" -> <<"slope", "intercept">>
    [] shape = "Quadratic" -> <<"a", "b", "c">>
    [] shape \in PeakShapes -> <<"amplitude", "center", "sigma">>
    [] shape = "PowerLaw" -> <<"amplitude", "exponent">>
    [] shape = "Exponential" -> <<"amplitude", "decay">>

\* def func(x, c) of ConstantModel
ConstantNames == <<"c">>

ParamNames(shape, deg) ==
  IF shape = "Polynomial" THEN PolyNames(deg)
  ELSE IF shape = "Constant" THEN ConstantNames
  ELSE LineshapeNames(shape)

(***************************************************************************)
(* The parameter store (self.params): name -> value, and for a derived     *)
(* parameter name -> expression.  A value is a number, None, NaN or a      *)
(* term standing for a result of numpy (polyfit, exp, log).                *)
(***************************************************************************)
EmptyStore == [key \in {} |-> None]

\* value of an expression "<factor>*<ref>": factor is in units of 1e-8
FactorScale == 10^8

EvalExpr(expr, store) ==
  IF expr.ref \in DOMAIN store /\ store[expr.ref].k = "num"
  THEN LET f == Num(expr.factor, FactorScale)
           v == store[expr.ref]
       IN NumE(f.n * v.n, f.d * v.d, 0)
  ELSE None

\* every derived parameter is recomputed from the current values
Reevaluate(store, ex) ==
  [key \in DOMAIN store |->
     IF key \in DOMAIN ex THEN EvalExpr(ex[key], store) ELSE store[key]]

\* self.params[key].value = v
SetValue(store, ex, key, v) == Reevaluate([store EXCEPT ![key] = v], ex)

\* Model.__init__: one parameter per name, named prefix + name, value None
ModelInit(shape, prefix, iv, deg) ==
  [key \in {prefix \o n : n \in Range(ParamNames(shape, deg))} |-> None]

(***************************************************************************)
(* Construction.                                                           *)
(***************************************************************************)
\* _validate_1d(independent_vars): the error it raises, or "none"
validate_1d(independent_vars) ==
  IF Len(independent_vars) # 1 THEN "DimensionalError" ELSE "none"

MAX_DEGREE == 7

\* a degree argument: an int, or a float n/d
IntDeg(i) == [isint |-> TRUE, n |-> i, d |-> 1]
FloatDeg(n, d) == [isint |-> FALSE, n |-> n, d |-> d]

\* if not isinstance(deg, int) or deg > self.MAX_DEGREE: raise TypeError
DegreeRejected(deg) == ~deg.isint \/ deg.n > MAX_DEGREE * deg.d

\* fwhm_factor of each peak class, in units of 1e-8
fwhm_factor(shape) ==
  CASE shape = "Gaussian" -> 235482000
    [] shape = "Lorentzian" -> 200000000
    [] shape = "Voigt" -> 360131000

\* digits after the point in the expression's format: '%.6f' / '%.7f'
FormatPlacesBug(shape) == 2

FormatPlaces(shape) == IF shape = "Gaussian" THEN 6 ELSE 7

\* '%.<places>f' % f, for f >= 0 in units of 1e-8: rounded to places digits
FormatFloat(f, places) ==
  LET q == 10^(8 - places) IN ((f + q \div 2) \div q) * q

\* expr = '%.6f*%ssigma' % (self.fwhm_factor, self.prefix)
FwhmExpr(shape, prefix) ==
  [factor |-> FormatFloat(fwhm_factor(shape), FormatPlaces(shape)),
   ref |-> prefix \o "sigma"]

NoModel == [shape |-> "none"]
NoDeg == IntDeg(0)

Prefixes == {"", "a_", "b_"}
IndepVars == {<<"x">>, <<>>, <<"x", "t">>}
DegInputs == {IntDeg(i) : i \in -1..(MAX_DEGREE + 1)} \cup {FloatDeg(5, 2)}

Construct ==
  /\ model = NoModel
  /\ \E shape \in Shapes, prefix \in Prefixes, iv \in IndepVars :
    \E deg \in (IF shape = "Polynomial" THEN DegInputs ELSE {NoDeg}) :
      IF shape = "Polynomial" /\ DegreeRejected(deg)
      THEN /\ last' = [op |-> "construct", shape |-> shape, prefix |-> prefix,
                       iv |-> iv, deg |-> deg, raised |-> "TypeError"]
           /\ UNCHANGED <<model, params, exprs, call>>
      ELSE LET store == ModelInit(shape, prefix, iv, deg.n)
               fwhm == prefix \o "fwhm"
               ex == IF shape \in PeakShapes
                     THEN (fwhm :> FwhmExpr(shape, prefix))
                     ELSE EmptyStore
           IN /\ model' = [shape |-> shape, prefix |-> prefix,
                           independent_vars |-> iv, poly_degree |-> deg.n,
                           has_initial_guess |-> FALSE]
              /\ exprs' = ex
              /\ params' = IF shape \in PeakShapes
                           THEN Reevaluate((fwhm :> None) @@ store, ex)
                           ELSE store
              /\ last' = [op |-> "construct", shape |-> shape, prefix |-> prefix,
                          iv |-> iv, deg |-> deg, raised |-> "none"]
              /\ UNCHANGED call

(***************************************************************************)
(* numpy as the guess procedures use it.                                   *)
(***************************************************************************)
\* data.mean(): NaN (with a warning) for an empty array
Mean(data) == IF data = <<>> THEN NaN ELSE Num(SumSeq(data), Len(data))

\* np.polyfit(x, y, deg) raises for a negative degree (ValueError), an empty
\* x or x and y of different lengths (TypeError); x = None cannot be fitted
PolyfitRaises(xopt, ylen, deg) ==
  \/ xopt.k = "None"
  \/ deg < 0
  \/ Len(xopt.v) = 0
  \/ Len(xopt.v) # ylen

PolyfitError(xopt, ylen, deg) ==
  IF xopt.k # "None" /\ deg < 0 THEN "ValueError" ELSE "TypeError"

\* the coefficient of x^p in np.polyfit(xt(x), yt(y), deg); xt and yt name
\* the transform applied to the arrays before the fit
PolyCoef(xt, x, yt, y, deg, p) ==
  [k |-> "polyfit", xt |-> xt, x |-> x, yt |-> yt, y |-> y, deg |-> deg, p |-> p]

\* np.log(v), np.exp(v), -1/v; exp(log(v)) is v and -1/(n/d) is -d/n
Log(v) == [k |-> "log", a |-> v]
Exp(v) == IF v.k = "log" THEN v.a ELSE [k |-> "exp", a |-> v]
NegRecip(v) ==
  IF v.k = "num" /\ v.e = 0 /\ v.n # 0 THEN Num(-v.d, v.n)
  ELSE [k |-> "negrecip", a |-> v]

\* abs(max(data)+1.e-9)
AbsMaxPlusEps(data) ==
  LET m == Max(data) IN IF m >= 0 THEN NumE(m, 1, 1) ELSE NumE(-m, 1, -1)

\* whether the name log is bound in the module: the imports bind only np,
\* Model and the lineshape functions
LogIsBound == FALSE

(***************************************************************************)
(* guess_starting_values of each class: the error it raises before any     *)
(* write ("none" if none), and the writes self.params[key].value = val in  *)
(* the order of the source.                                                *)
(***************************************************************************)
Plan(writes) == [raised |-> "none", writes |-> writes]
Abort(err) == [raised |-> err, writes |-> <<>>]
W(key, val) == [key |-> key, val |-> val]

ConstantGuess(m, data) == Plan(<<W(m.prefix \o "c", Mean(data))>>)

LinearGuess(m, data, x) ==
  IF x.k = "None"
  THEN Plan(<<W(m.prefix \o "intercept", Num(0, 1)), W(m.prefix \o "slope", Num(0, 1))>>)
  ELSE IF PolyfitRaises(x, Len(data), 1) THEN Abort(PolyfitError(x, Len(data), 1))
  ELSE Plan(<<W(m.prefix \o "intercept", PolyCoef("x", x.v, "y", data, 1, 0)),
              W(m.prefix \o "slope", PolyCoef("x", x.v, "y", data, 1, 1))>>)

QuadraticGuess(m, data, x) ==
  IF x.k = "None"
  THEN Plan(<<W(m.prefix \o "a", Num(0, 1)), W(m.prefix \o "b", Num(0, 1)),
              W(m.prefix \o "c", Num(0, 1))>>)
  ELSE IF PolyfitRaises(x, Len(data), 2) THEN Abort(PolyfitError(x, Len(data), 2))
  ELSE Plan(<<W(m.prefix \o "a", PolyCoef("x", x.v, "y", data, 2, 2)),
              W(m.prefix \o "b", PolyCoef("x", x.v, "y", data, 2, 1)),
              W(m.prefix \o "c", PolyCoef("x", x.v, "y", data, 2, 0))>>)

PolynomialGuess(m, data, x) ==
  LET deg == m.poly_degree IN
  IF x.k = "None"
  THEN Plan([i \in 1..(deg + 1) |-> W(m.prefix \o CName(i - 1), Num(0, 1))])
  ELSE IF PolyfitRaises(x, Len(data), deg) THEN Abort(PolyfitError(x, Len(data), deg))
  ELSE Plan([i \in 1..(deg + 1) |->
               W(m.prefix \o CName(i - 1), PolyCoef("x", x.v, "y", data, deg, i - 1))])

PeakGuess(m, data, x, negative) ==
  LET r == estimate_peak(data, x, negative) IN
  IF ~r.ok THEN Abort(r.err)
  ELSE Plan(<<W(m.prefix \o "amplitude", r.amp), W(m.prefix \o "center", r.cen),
              W(m.prefix \o "sigma", r.sig)>>)

PowerLawGuess(m, data, x) ==
  IF LogIsBound /\ ~PolyfitRaises(x, Len(data), 1)
  THEN Plan(<<W("amplitude",
                Exp(PolyCoef("log(x+1e-14)", x.v, "log(y+1e-14)", data, 1, 0))),
              W("exponent", PolyCoef("log(x+1e-14)", x.v, "log(y+1e-14)", data, 1, 1))>>)
  ELSE IF data = <<>> THEN Abort("ValueError")
  ELSE Plan(<<W("amplitude", Exp(Log(AbsMaxPlusEps(data)))), W("exponent", Num(1, 1))>>)

ExponentialGuess(m, data, x) ==
  IF ~PolyfitRaises(x, Len(data), 1)
  THEN Plan(<<W("amplitude", Exp(PolyCoef("x", x.v, "log(abs(y)+1e-15)", data, 1, 0))),
              W("decay", NegRecip(PolyCoef("x", x.v, "log(abs(y)+1e-15)", data, 1, 1)))>>)
  ELSE IF data = <<>> THEN Abort("ValueError")
  ELSE Plan(<<W("amplitude", Exp(Log(AbsMaxPlusEps(data)))),
              W("decay", NegRecip(Num(1, 1)))>>)

guess_starting_values(m, data, x, negative) ==
  CASE m.shape = "Constant" -> ConstantGuess(m, data)
    [] m.shape = "Linear" -> LinearGuess(m, data, x)
    [] m.shape = "Quadratic" -> QuadraticGuess(m, data, x)
    [] m.shape = "Polynomial" -> PolynomialGuess(m, data, x)
    [] m.shape \in PeakShapes -> PeakGuess(m, data, x, negative)
    [] m.shape = "PowerLaw" -> PowerLawGuess(m, data, x)
    [] m.shape = "Exponential" -> ExponentialGuess(m, data, x)

\* the writes applied in order; self.params[key] of a name the store does
\* not hold raises KeyError and ends the call, the earlier writes remaining.
\* keys: every name addressed; written: the names whose value was set
RECURSIVE ApplyWrites(_, _, _, _, _)
ApplyWrites(store, ex, writes, keys, written) ==
  IF writes = <<>>
  THEN [store |-> store, keys |-> keys, written |-> written, raised |-> "none"]
  ELSE LET w == Head(writes) IN
       IF w.key \notin DOMAIN store
       THEN [store |-> store, keys |-> Append(keys, w.key), written |-> written,
             raised |-> "KeyError"]
       ELSE ApplyWrites(SetValue(store, ex, w.key, w.val), ex, Tail(writes),
                        Append(keys, w.key), Append(written, w.key))

\* self.has_initial_guess = True is the last statement of every guess: a
\* call that raised never reaches it
FlagAfterBug(done, old) == done

FlagAfter(done, old) == IF done THEN TRUE ELSE old

FlagEffect == "has_initial_guess"

\* the effects of a call in order: the parameter writes, then the flag
Effects(written, done) == IF done THEN Append(written, FlagEffect) ELSE written

\* the (data, x) a guess is called with
GuessSamples ==
  { [data |-> <<2, 16>>, x |-> Array(<<1, 2>>)],
    [data |-> <<2, 16>>, x |-> None],
    [data |-> <<-3, -1>>, x |-> Array(<<1, 2>>)],
    [data |-> <<1, 3>>, x |-> Array(<<1>>)],
    [data |-> <<>>, x |-> Array(<<>>)],
    [data |-> <<0, 2, 2, 2, 0>>, x |-> Array(<<0, 1, 2, 3, 4>>)] }

Guess ==
  /\ model # NoModel
  /\ \E s \in GuessSamples :
     \E negative \in (IF model.shape \in PeakShapes THEN BOOLEAN ELSE {FALSE}) :
       LET plan == guess_starting_values(model, s.data, s.x, negative)
           res == IF plan.raised # "none"
                  THEN [store |-> params, keys |-> <<>>, written |-> <<>>,
                        raised |-> plan.raised]
                  ELSE ApplyWrites(params, exprs, plan.writes, <<>>, <<>>)
           done == res.raised = "none"
       IN /\ params' = res.store
          /\ model' = [model EXCEPT !.has_initial_guess = FlagAfter(done, @)]
          /\ last' = [op |-> "guess", data |-> s.data, x |-> s.x,
                      negative |-> negative, raised |-> res.raised,
                      keys |-> res.keys, effects |-> Effects(res.written, done),
                      before |-> model.has_initial_guess]
  /\ UNCHANGED <<exprs, call>>

\* the caller sets sigma of a peak model by hand: params[prefix+'sigma'].value = v
SigmaValues == {Num(1, 1), Num(5, 2)}

ManualSigma ==
  /\ model # NoModel
  /\ model.shape \in PeakShapes
  /\ \E v \in SigmaValues :
       /\ params' = SetValue(params, exprs, model.prefix \o "sigma", v)
       /\ last' = [op |-> "set", key |-> model.prefix \o "sigma", val |-> v]
  /\ UNCHANGED <<model, exprs, call>>

(***************************************************************************)
(* State after import: no instance, an empty parameter store.              *)
(***************************************************************************)
NoCall == [fn |-> "none"]
NoOp == [op |-> "none"]

Init ==
  /\ model = NoModel
  /\ params = EmptyStore
  /\ exprs = EmptyStore
  /\ last = NoOp
  /\ call = NoCall

Next == Construct \/ Guess \/ ManualSigma
Spec == Init /\ [][Next]_vars

(***************************************************************************)
(* Pure-function specifications: the initial states draw the arguments     *)
(* from bounded sets and the single action applies the function; call      *)
(* holds the arguments and, once done, the result.                         *)
(***************************************************************************)
Samples == 0..MaxVal
Arrays == SeqsOf(Samples, 0, MaxLen)
Pending == Raise("pending")

InitIndex ==
  /\ model = NoModel /\ params = EmptyStore /\ exprs = EmptyStore /\ last = NoOp
  /\ call \in [fn : {"index_of"}, arr : SeqsOf(-1..MaxVal, 1, MaxLen),
               val : -2..(MaxVal + 1), done : {FALSE}, res : {0}]

CallIndexOf ==
  /\ call.fn = "index_of" /\ ~call.done
  /\ call' = [call EXCEPT !.done = TRUE, !.res = index_of(call.arr, call.val)]
  /\ UNCHANGED <<model, params, exprs, last>>

NextIndex == CallIndexOf
SpecIndex == InitIndex /\ [][NextIndex]_vars

InitPeak ==
  /\ model = NoModel /\ params = EmptyStore /\ exprs = EmptyStore /\ last = NoOp
  /\ call \in [fn : {"estimate_peak"}, y : Arrays,
               x : {None} \cup {Array(a) : a \in Arrays},
               negative : BOOLEAN, done : {FALSE}, res : {Pending}]

CallEstimatePeak ==
  /\ call.fn = "estimate_peak" /\ ~call.done
  /\ call' = [call EXCEPT !.done = TRUE,
                          !.res = estimate_peak(call.y, call.x, call.negative)]
  /\ UNCHANGED <<model, params, exprs, last>>

NextPeak == CallEstimatePeak
SpecPeak == InitPeak /\ [][NextPeak]_vars

(***************************************************************************)
(* Claims about index_of and estimate_peak.                                *)
(***************************************************************************)
PairwiseDistinct(arr) == \A i, j \in DOMAIN arr : i # j => arr[i] # arr[j]

\* C9: for a non-empty arr in any order, index_of(arr, val) is 0 when val is
\* strictly below every element, otherwise an index whose element is nearest
\* to val; with pairwise distinct elements index_of(arr, arr[i]) = i.
C9_IndexOfNearest ==
  (call.fn = "index_of" /\ call.done) =>
    LET arr == call.arr
        val == call.val
        r == call.res
    IN /\ (\A i \in DOMAIN arr : val < arr[i]) => r = 0
       /\ (\E i \in DOMAIN arr : arr[i] <= val) =>
            /\ r + 1 \in DOMAIN arr
            /\ \A j \in DOMAIN arr :
                 Abs(arr[r + 1] - val) <= Abs(arr[j] - val)
       /\ PairwiseDistinct(arr) =>
            \A i \in DOMAIN arr : arr[i] = val => r = i - 1

\* an unordered array whose nearest element to val is neither first nor least
C9_Witness ==
  /\ call.fn = "index_of" /\ call.done
  /\ Len(call.arr) >= 3
  /\ call.arr[1] > call.arr[2]
  /\ PairwiseDistinct(call.arr)
  /\ call.res = 2
  /\ call.arr[3] = call.val
  /\ call.val > Min(call.arr)

\* the samples, in their given order, on the flag's side of the midpoint
Qualifying(y, negative) ==
  {i \in DOMAIN y : IF negative THEN 2 * y[i] < Max(y) + Min(y)
                                ELSE 2 * y[i] > Max(y) + Min(y)}

\* C10: whenever estimate_peak returns for a supplied x, its width is half of
\* x[last] - x[first] over the qualifying samples when more than two exist
\* and (maxx - minx)/6 otherwise; fewer than 3 samples and flat signals get
\* the default width, and a flat signal gets amplitude 0.
C10_PeakWidth ==
  (call.fn = "estimate_peak" /\ call.done /\ call.x.k = "array" /\ call.res.ok) =>
    LET y == call.y
        x == call.x.v
        q == Qualifying(y, call.negative)
        dflt == Num(Max(x) - Min(x), 6)
    IN /\ Cardinality(q) > 2 => call.res.sig = Num(x[SetMax(q)] - x[SetMin(q)], 2)
       /\ Cardinality(q) <= 2 => call.res.sig = dflt
       /\ Len(y) < 3 => call.res.sig = dflt
       /\ Max(y) = Min(y) => call.res.sig = dflt /\ call.res.amp = Num(0, 1)

\* a negative peak with three samples below the midpoint: the refined width
\* differs from the default one
C10_Witness ==
  /\ call.fn = "estimate_peak" /\ call.done /\ call.x.k = "array" /\ call.res.ok
  /\ call.negative
  /\ Cardinality(Qualifying(call.y, TRUE)) > 2
  /\ call.res.sig # Num(Max(call.x.v) - Min(call.x.v), 6)
  /\ SetMin(Qualifying(call.y, TRUE)) = 2
  /\ SetMax(Qualifying(call.y, TRUE)) = 4
  /\ call.res.sig = Num(call.x.v[4] - call.x.v[2], 2)

\* C3: for a supplied x, the center estimate_peak returns is the x value at
\* the index of the minimum of y when negative is true and at the index of
\* the maximum of y when it is false.
C3_CenterFollowsFlag ==
  (call.fn = "estimate_peak" /\ call.done /\ call.x.k = "array" /\ call.res.ok) =>
    LET y == call.y
        ext == IF call.negative THEN Min(y) ELSE Max(y)
    IN \E i \in DOMAIN y :
         /\ y[i] = ext
         /\ i \in DOMAIN call.x.v
         /\ call.res.cen = Num(call.x.v[i], 1)

(***************************************************************************)
(* Claims about the model classes.                                         *)
(***************************************************************************)
\* the factors the claim states: 2.354820, 2.0, 3.60131
ClaimedFactor(shape) ==
  CASE shape = "Gaussian" -> Num(2354820, 1000000)
    [] shape = "Lorentzian" -> Num(2, 1)
    [] shape = "Voigt" -> Num(360131, 100000)

\* C1: in every reachable state of a Gaussian, Lorentzian or Voigt instance
\* fwhm equals factor * sigma, sigma being the instance's own prefixed sigma
\* parameter, and no guess call addresses fwhm.
C1_FwhmDerived ==
  model.shape \in PeakShapes =>
    LET sk == model.prefix \o "sigma"
        fk == model.prefix \o "fwhm"
        f == ClaimedFactor(model.shape)
    IN /\ sk \in DOMAIN params /\ fk \in DOMAIN params
       /\ IF params[sk].k = "num"
          THEN params[fk] = NumE(f.n * params[sk].n, f.d * params[sk].d, 0)
          ELSE params[fk] = None
       /\ last.op = "guess" => \A i \in DOMAIN last.keys : last.keys[i] # fk

\* a prefixed Gaussian whose guess refined sigma to 1: fwhm is 2.35482
C1_Witness ==
  /\ model.shape = "Gaussian" /\ model.prefix = "a_"
  /\ Len(model.independent_vars) = 1
  /\ last.op = "guess" /\ last.raised = "none"
  /\ last.x = Array(<<0, 1, 2, 3, 4>>)
  /\ params["a_sigma"] = Num(1, 1)
  /\ params["a_fwhm"] = Num(235482, 100000)

OwnNames(m) == {m.prefix \o n : n \in Range(ParamNames(m.shape, m.poly_degree))}

\* C2: the store keys a guess call addresses are names of the instance,
\* prefix + base name of a primary parameter, and a call that completes
\* writes exactly that set.
C2_GuessWritesOwnNames ==
  (last.op = "guess" /\ Len(model.independent_vars) = 1) =>
    /\ Range(last.keys) \subseteq OwnNames(model)
    /\ last.raised = "none" => Range(last.keys) = OwnNames(model)

\* C4: PolynomialModel construction fails, creating no instance, for every
\* degree that is not an integer or is outside 0..7, and succeeds for every
\* integer degree 0..7, exposing exactly c0..c_deg.
C4_DegreeValidated ==
  (last.op = "construct" /\ last.shape = "Polynomial" /\ Len(last.iv) = 1) =>
    IF last.deg.isint /\ last.deg.n \in 0..7
    THEN /\ last.raised = "none"
         /\ model # NoModel
         /\ DOMAIN params = {last.prefix \o CName(i) : i \in 0..last.deg.n}
    ELSE /\ last.raised # "none"
         /\ model = NoModel

\* C5: construction with an independent_vars list whose length is not 1
\* fails with the dimensionality error, so no instance, and no guess, ever
\* has such a list.
C5_OneIndependentVar ==
  /\ (last.op = "construct" /\ validate_1d(last.iv) # "none") =>
       last.raised = validate_1d(last.iv)
  /\ model # NoModel => validate_1d(model.independent_vars) = "none"

RegressionShapes == {"Linear", "Quadratic", "Polynomial", "PowerLaw", "Exponential"}

\* the regression a guess of this shape runs on (data, x) fails numerically
RegressionFails(m, data, x) ==
  CASE m.shape = "Linear" -> x.k # "None" /\ PolyfitRaises(x, Len(data), 1)
    [] m.shape = "Quadratic" -> x.k # "None" /\ PolyfitRaises(x, Len(data), 2)
    [] m.shape = "Polynomial" ->
         x.k # "None" /\ PolyfitRaises(x, Len(data), m.poly_degree)
    [] m.shape \in {"PowerLaw", "Exponential"} -> PolyfitRaises(x, Len(data), 1)

\* C6: a regression-based guess whose regression fails still completes
\* normally: it raises nothing, writes its parameters and sets the flag.
C6_RegressionFailureSwallowed ==
  (/\ last.op = "guess"
   /\ Len(model.independent_vars) = 1
   /\ model.shape \in RegressionShapes
   /\ RegressionFails(model, last.data, last.x)) =>
    /\ last.raised = "none"
    /\ model.has_initial_guess
    /\ last.effects # <<>>
    /\ last.effects[Len(last.effects)] = FlagEffect

\* the log-log regression of (x, data) is well defined
LogLogSucceeds(data, x) ==
  /\ x.k = "array"
  /\ ~PolyfitRaises(x, Len(data), 1)
  /\ \A i \in DOMAIN data : data[i] > 0
  /\ \A i \in DOMAIN x.v : x.v[i] > 0

\* C7: whenever the log-log regression of (x, data) succeeds, the power-law
\* guess sets exponent to its slope and amplitude to exp(intercept); the
\* fallback exponent = 1 is used only when the regression fails.
C7_PowerLawRegression ==
  (/\ last.op = "guess"
   /\ model.shape = "PowerLaw"
   /\ Len(model.independent_vars) = 1
   /\ model.prefix = ""
   /\ LogLogSucceeds(last.data, last.x)) =>
    /\ last.raised = "none"
    /\ params["exponent"] =
         PolyCoef("log(x+1e-14)", last.x.v, "log(y+1e-14)", last.data, 1, 1)
    /\ params["amplitude"] =
         Exp(PolyCoef("log(x+1e-14)", last.x.v, "log(y+1e-14)", last.data, 1, 0))

\* C8: the guessed flag only moves from unguessed to guessed: a guess call
\* that completes sets it as its last effect, after all parameter writes; a
\* call that aborts leaves it unchanged; once true it stays true.
C8_FlagOneWay ==
  [][ /\ model # NoModel =>
          /\ model' # NoModel
          /\ model.has_initial_guess => model'.has_initial_guess
      /\ last'.op = "guess" =>
          IF last'.raised = "none"
          THEN /\ model'.has_initial_guess
               /\ last'.effects[Len(last'.effects)] = FlagEffect
               /\ \A i \in 1..(Len(last'.effects) - 1) :
                    /\ last'.effects[i] # FlagEffect
                    /\ last'.effects[i] = last'.keys[i]
               /\ Len(last'.effects) = Len(last'.keys) + 1
          ELSE /\ model'.has_initial_guess = model.has_initial_guess
               /\ \A i \in DOMAIN last'.effects : last'.effects[i] # FlagEffect
    ]_vars

\* a guess aborted on an instance that an earlier guess had marked guessed
C8_Witness ==
  /\ last.op = "guess"
  /\ Len(model.independent_vars) = 1
  /\ last.raised # "none"
  /\ last.before
  /\ model.has_initial_guess

=============================================================================
